---- MODULE Spec2Model ----
(***************************************************************************)
(* A model of stackbit/utils: the TaskQueue (task-queue.js) and the        *)
(* sequential promise helpers (index.js / index.ts).                       *)
(***************************************************************************)
EXTENDS Integers, Sequences, FiniteSets, TLC

\* ------------------------------------------------------------------ bounds
MaxTasks == 4       \* tasks submitted to one queue
MaxTime == 4        \* clock ticks observed
MaxLimit == 2       \* largest concurrency limit tried
MaxInterval == 2    \* the interval tried (0 = no interval)

MaxLen == 3         \* longest array handed to a promise helper
MaxDepth == 2       \* deepest nesting of a value handed to mapDeep
MaxTail == 3        \* pieces of text after the closing frontmatter delimiter
MaxNest == 2        \* deepest nesting of an object handed to an object utility
MaxPath == 2        \* most keys in a property path

Limits == 0..MaxLimit                 \* 0: options.limit absent (falsy)
Intervals == {0, MaxInterval}         \* 0: options.interval absent (falsy)
Tags == 0..(MaxTasks - 1)
\* a job settles either way; its value (or reason) is its own, one per task
JobOutcomes(t) == {[kind |-> k, value |-> t] : k \in {"resolve", "reject"}}
Pending == [kind |-> "pending", value |-> 0]
NoPromise == [kind |-> "none", value |-> 0]

VARIABLES
    tq,             \* the TaskQueue object: its fields, plus the calls it made
    now,            \* the clock (process.hrtime / the timer wheel)
    taskTagCounter, \* module-level counter of task tags
    job,            \* tag -> "idle" | "running" | "settled" | "finished"
    outcome,        \* tag -> what the job itself settled with
    returned,       \* tag -> state of the promise task.run() returned
    promise,        \* tag -> state of task.promise (what addTask returned)
    dropped,        \* tags discarded by clearQueue
    survivors,      \* tags whose job was running when clearQueue was called
    it,             \* one call of a promise helper: its closure and the calls it made
    md,             \* one call of mapDeep: its arguments, result and iteratee calls
    fm,             \* one call of parseMarkdownWithFrontMatter: its text and result
    ou              \* one call of an object utility: its arguments and the objects

qvars == <<tq, now, taskTagCounter, job, outcome, returned, promise, dropped,
           survivors>>
pvars == <<md, fm, ou>>
vars == <<qvars, it, pvars>>

\* ------------------------------------------------------------ TaskQueue
Range(s) == {s[i] : i \in 1..Len(s)}

\* constructor: each bind wraps the previous this._runTask, so the gate bound
\* last is the outermost one.  The chain lists the gates outermost first;
\* past its end is the prototype's _runTask.
GateChainSwapped(limit, interval) ==
    (IF interval # 0 THEN <<"interval">> ELSE <<>>) \o
    (IF limit # 0 THEN <<"limit">> ELSE <<>>)

GateChain(limit, interval) ==
    (IF limit # 0 THEN <<"limit">> ELSE <<>>) \o
    (IF interval # 0 THEN <<"interval">> ELSE <<>>)

Constructor(limit, interval) ==
    [limit |-> limit,
     interval |-> interval,
     chain |-> GateChain(limit, interval),
     runCount |-> 0,
     lastRunTime |-> <<>>,     \* <<>> is null, <<t>> a time
     timeout |-> <<>>,         \* <<>> is null, <<[at, cb]>> a pending timer
     taskQueue |-> <<>>,
     runs |-> <<>>,            \* the tags of the task.run() calls made, in order
     log |-> <<>>,             \* gates evaluated and starts made by the last handler
     error |-> FALSE]          \* a handler threw (task undefined)

\* this.runCount < this.limit
LimitGateOffByOne(q) == q.runCount <= q.limit

LimitGateStrict(q) == q.runCount + 1 < q.limit

LimitGate(q) == q.runCount < q.limit

\* diffMs >= this.interval
IntervalElapsed(q, t) == t - q.lastRunTime[1] >= q.interval

\* this.interval - diffMs
TimerDelayShort(q, t) == 1

TimerDelay(q, t) == q.interval - (t - q.lastRunTime[1])

\* this.taskQueue.shift(): the task taken and the queue left
ShiftFromTail(queue) ==
    [task |-> queue[Len(queue)], rest |-> SubSeq(queue, 1, Len(queue) - 1)]

Shift(queue) == [task |-> Head(queue), rest |-> Tail(queue)]

RECURSIVE ExecuteNextTask(_, _), RunChain(_, _, _), RunTask(_, _)

\* _executeNextTask
ExecuteNextTask(q, t) ==
    IF q.taskQueue = <<>> THEN q ELSE RunChain(q, 1, t)

\* _runTaskLimit(runTask)
RunTaskLimit(q, i, t) ==
    LET q1 == [q EXCEPT !.log = Append(@, [op |-> "limit"])]
    IN  IF LimitGate(q1) THEN RunChain(q1, i + 1, t) ELSE q1

\* _runTaskInterval(runTask)
RunTaskInterval(q, i, t) ==
    LET q1 == [q EXCEPT !.log = Append(@, [op |-> "interval"])]
    IN  IF q1.lastRunTime = <<>> THEN RunChain(q1, i + 1, t)
        ELSE IF q1.timeout = <<>>
             THEN IF IntervalElapsed(q1, t)
                  THEN RunChain(q1, i + 1, t)
                  ELSE [q1 EXCEPT !.timeout =
                            <<[at |-> t + TimerDelay(q1, t), cb |-> i + 1]>>]
             ELSE q1

\* this._runTask as rebound by the constructor, entered at gate i
RunChain(q, i, t) ==
    IF i > Len(q.chain) THEN RunTask(q, t)
    ELSE IF q.chain[i] = "limit" THEN RunTaskLimit(q, i, t)
    ELSE RunTaskInterval(q, i, t)

\* _runTask (the prototype's)
RunTask(q, t) ==
    IF q.taskQueue = <<>>
    THEN \* shift() gives undefined; task.run() throws
         [q EXCEPT !.timeout = <<>>,
                   !.runCount = @ + 1,
                   !.lastRunTime = <<t>>,
                   !.error = TRUE]
    ELSE LET sh == Shift(q.taskQueue)
             q1 == [q EXCEPT !.taskQueue = sh.rest,
                             !.timeout = <<>>,
                             !.runCount = @ + 1,
                             !.lastRunTime = <<t>>]
             \* task.run(): the job is invoked
             q2 == [q1 EXCEPT
                        !.runs = Append(@, sh.task),
                        !.log = Append(@,
                            [op |-> "run",
                             tag |-> sh.task,
                             count |-> q.runCount,
                             since |-> IF q.lastRunTime = <<>> THEN <<>>
                                       ELSE <<t - q.lastRunTime[1]>>,
                             queued |-> sh.task \in Range(q1.taskQueue)])]
         IN  ExecuteNextTask(q2, t)

\* Task.run: job().then(resolve, reject)
TaskRunNoReject(o) ==
    IF o.kind = "resolve"
    THEN [promise |-> o, returned |-> "fulfilled"]
    ELSE [promise |-> Pending, returned |-> "rejected"]

TaskRun(o) == [promise |-> o, returned |-> "fulfilled"]

Started(q) == Range(q.runs)

\* the jobs a handler invoked become running
Invoke(q) ==
    [t \in Tags |-> IF t \in Started(q) \ Started(tq) THEN "running" ELSE job[t]]

Enter(q) == [q EXCEPT !.log = <<>>]

\* ------------------------------------------------------------- actions
\* addTask(job, tag)
AddTask ==
    /\ taskTagCounter < MaxTasks
    /\ ~tq.error
    /\ LET tag == taskTagCounter
           q == ExecuteNextTask(
                    [Enter(tq) EXCEPT !.taskQueue = Append(@, tag)], now)
       IN  /\ tq' = q
           /\ job' = Invoke(q)
           /\ promise' = [promise EXCEPT ![tag] = Pending]
           /\ taskTagCounter' = taskTagCounter + 1
    /\ UNCHANGED <<it, pvars, now, outcome, returned, dropped, survivors>>

\* clearQueue()
ClearQueueKeepsHead(q) ==
    [q EXCEPT !.taskQueue = IF @ = <<>> THEN @ ELSE <<Head(@)>>,
              !.timeout = <<>>]

ClearQueueKeepsTimer(q) == [q EXCEPT !.taskQueue = <<>>]

ClearQueueOp(q) == [q EXCEPT !.taskQueue = <<>>, !.timeout = <<>>]

ClearQueue ==
    /\ ~tq.error
    /\ tq' = ClearQueueOp(Enter(tq))
    /\ dropped' = dropped \cup Range(tq.taskQueue)
    /\ survivors' = survivors \cup {t \in Tags : job[t] = "running"}
    /\ UNCHANGED <<it, pvars, now, taskTagCounter, job, outcome, returned, promise>>

\* the setTimeout callback of _runTaskInterval
TimerFires ==
    /\ ~tq.error
    /\ tq.timeout # <<>>
    /\ now >= tq.timeout[1].at
    /\ LET q == RunChain(Enter(tq), tq.timeout[1].cb, now)
       IN  /\ tq' = q
           /\ job' = Invoke(q)
    /\ UNCHANGED <<it, pvars, now, taskTagCounter, outcome, returned, promise, dropped, survivors>>

\* a running job's promise settles; Task.run hands it to resolve / reject
JobSettles(t) ==
    /\ job[t] = "running"
    /\ \E o \in JobOutcomes(t) :
          /\ outcome' = [outcome EXCEPT ![t] = o]
          /\ promise' = [promise EXCEPT ![t] = TaskRun(o).promise]
          /\ returned' = [returned EXCEPT ![t] = TaskRun(o).returned]
    /\ job' = [job EXCEPT ![t] = "settled"]
    /\ UNCHANGED <<it, pvars, tq, now, taskTagCounter, dropped, survivors>>

\* the .then() handler of _runTask
TaskDoneRetry(t) ==
    /\ job[t] = "settled"
    /\ returned[t] = "fulfilled"
    /\ ~tq.error
    /\ LET q == ExecuteNextTask(
                    [Enter(tq) EXCEPT !.runCount = @ - 1,
                                      !.taskQueue =
                                          IF outcome[t].kind = "reject"
                                          THEN Append(@, t) ELSE @], now)
       IN  /\ tq' = q
           /\ job' = [Invoke(q) EXCEPT ![t] = "finished"]
    /\ UNCHANGED <<it, pvars, now, taskTagCounter, outcome, returned, promise, dropped,
                   survivors>>

TaskDoneNoNext(t) ==
    /\ job[t] = "settled"
    /\ returned[t] = "fulfilled"
    /\ ~tq.error
    /\ tq' = [Enter(tq) EXCEPT !.runCount = @ - 1]
    /\ job' = [job EXCEPT ![t] = "finished"]
    /\ UNCHANGED <<it, pvars, now, taskTagCounter, outcome, returned, promise, dropped,
                   survivors>>

TaskDone(t) ==
    /\ job[t] = "settled"
    /\ returned[t] = "fulfilled"
    /\ ~tq.error
    /\ LET q == ExecuteNextTask([Enter(tq) EXCEPT !.runCount = @ - 1], now)
       IN  /\ tq' = q
           /\ job' = [Invoke(q) EXCEPT ![t] = "finished"]
    /\ UNCHANGED <<it, pvars, now, taskTagCounter, outcome, returned, promise, dropped, survivors>>

\* time passes; only a queue with an interval reads the clock
Tick ==
    /\ tq.interval # 0
    /\ now < MaxTime
    /\ now' = now + 1
    /\ UNCHANGED <<it, pvars, tq, taskTagCounter, job, outcome, returned, promise, dropped, survivors>>

\* past the ticks observed, the clock runs on to the time a pending timer is due
Wait ==
    /\ tq.timeout # <<>>
    /\ now >= MaxTime
    /\ now < tq.timeout[1].at
    /\ now' = tq.timeout[1].at
    /\ UNCHANGED <<it, pvars, tq, taskTagCounter, job, outcome, returned, promise, dropped,
                   survivors>>

\* ------------------------------------------------- promise helpers
Elems == {"a", "b"}
\* what a callback may resolve with; "false" and "undefined" are the falsy ones
Results == Elems \cup {"false", "undefined"}
Errors == {"e1", "e2"}
Arrays == UNION {[1..n -> Elems] : n \in 0..MaxLen}
Helpers == {"forEachPromise", "mapPromise", "reducePromise", "findPromise"}
CallbackOutcomes ==
    [kind : {"resolve"}, value : Results] \cup [kind : {"reject"}, value : Errors]

\* if (result)
TruthyUnlessUndefined(r) == r # "undefined"

Truthy(r) == r \notin {"false", "undefined"}

\* the helper as called: new Promise(...) not yet run
Helper(h, legacy, array, initialValue) ==
    [helper |-> h,
     legacy |-> legacy,        \* the version without the early exit of forEachPromise
     array |-> array,
     called |-> FALSE,
     initialValue |-> initialValue,
     accumulator |-> initialValue,
     results |-> <<>>,         \* mapPromise: index -> result, kept as a function
     settled |-> [kind |-> "pending", value |-> <<>>],
     calls |-> <<>>,           \* indices the callback was invoked with, in order
     inFlight |-> {},          \* indices whose callback promise is pending
     outcomes |-> <<>>]        \* what each callback settled with, in call order

\* resolve(value) / reject(error): a settled promise stays as it is
Settle(s, kind, value) ==
    IF s.settled.kind = "pending"
    THEN [s EXCEPT !.settled = [kind |-> kind, value |-> value]]
    ELSE s

\* callback.call(thisArg, array[index], index, array)
CallbackCallEager(s, index) ==
    [s EXCEPT !.calls = @ \o [k \in 1..(Len(s.array) - index) |-> index + k - 1],
              !.inFlight = @ \cup index..(Len(s.array) - 1)]

CallbackCall(s, index) ==
    [s EXCEPT !.calls = Append(@, index), !.inFlight = @ \cup {index}]

\* the else branch of next(index): the array is exhausted
FinishNoValue(s) ==
    CASE s.helper = "mapPromise" -> Settle(s, "resolve", s.results)
      [] OTHER -> Settle(s, "resolve", "undefined")

Finish(s) ==
    CASE s.helper = "forEachPromise" -> Settle(s, "resolve", "undefined")
      [] s.helper = "mapPromise" -> Settle(s, "resolve", s.results)
      [] s.helper = "reducePromise" -> Settle(s, "resolve", s.accumulator)
      [] s.helper = "findPromise" -> Settle(s, "resolve", "undefined")

\* next(index) (index counts from 0, as in the source)
NextIndex(s, index) ==
    IF index < Len(s.array) THEN CallbackCall(s, index) ELSE Finish(s)

\* mapPromise: results[index] = result
StoreResultOffByOne(results, index, result) ==
    [k \in (DOMAIN results) \cup {index + 2} |->
        IF k = index + 2 THEN result ELSE results[k]]

StoreResult(results, index, result) ==
    [k \in (DOMAIN results) \cup {index + 1} |->
        IF k = index + 1 THEN result ELSE results[k]]

\* forEachPromise: result === false
StopsForEachOnFalsy(s, result) == ~s.legacy /\ ~Truthy(result)

StopsForEach(s, result) == ~s.legacy /\ result = "false"

\* the .then() handler of the callback's promise
OnFulfilled(s, index, result) ==
    CASE s.helper = "forEachPromise" ->
            IF StopsForEach(s, result)
            THEN Settle(s, "resolve", "undefined")
            ELSE NextIndex(s, index + 1)
      [] s.helper = "mapPromise" ->
            NextIndex([s EXCEPT !.results = StoreResult(@, index, result)],
                      index + 1)
      [] s.helper = "reducePromise" ->
            NextIndex([s EXCEPT !.accumulator = result], index + 1)
      [] s.helper = "findPromise" ->
            IF Truthy(result)
            THEN Settle(s, "resolve", s.array[index + 1])
            ELSE NextIndex(s, index + 1)

\* the .catch() handler
OnRejectedSwallows(s, index, error) == NextIndex(s, index + 1)

OnRejected(s, index, error) == Settle(s, "reject", error)

\* the promise executor: next(0)
CallHelper ==
    /\ ~it.called
    /\ it' = NextIndex([it EXCEPT !.called = TRUE], 0)
    /\ UNCHANGED <<qvars, pvars>>

\* the promise a callback returned settles, and its handler runs
CallbackSettles(index) ==
    /\ index \in it.inFlight
    /\ \E o \in CallbackOutcomes :
          LET s == [it EXCEPT !.inFlight = @ \ {index},
                              !.outcomes = Append(@, [index |-> index,
                                                      kind |-> o.kind,
                                                      value |-> o.value])]
          IN  it' = IF o.kind = "resolve"
                    THEN OnFulfilled(s, index, o.value)
                    ELSE OnRejected(s, index, o.value)
    /\ UNCHANGED <<qvars, pvars>>

NoHelper == Helper("forEachPromise", FALSE, <<>>, "undefined")

\* ------------------------------------------------------------ mapDeep
\* values: numbers, arrays and plain objects; a collection keeps its children
\* as entries in iteration order, keyed by index or by property name
Idx(i) == [idx |-> i]
Name(k) == [name |-> k]
Num(n) == [kind |-> "num", val |-> n]
Arr(s) == [kind |-> "arr",
           val |-> [i \in 1..Len(s) |-> [key |-> Idx(i - 1), val |-> s[i]]]]
Obj(e) == [kind |-> "obj", val |-> e]
Prop(k, v) == [key |-> Name(k), val |-> v]

\* _.isPlainObject(value) || _.isArray(value)
IsCollection(v) == v.kind \in {"arr", "obj"}

Scalars == {Num(1), Num(2), Num(3)}

RECURSIVE Trees(_)
Trees(d) ==
    IF d = 0 THEN Scalars
    ELSE LET T == Trees(d - 1)
         IN  T \cup {Arr(<<>>), Obj(<<>>)}
               \cup {Arr(<<a>>) : a \in T}
               \cup {Arr(<<n, a>>) : n \in Scalars, a \in T}
               \cup {Obj(<<Prop("x", a)>>) : a \in T}
               \cup {Obj(<<Prop("x", n), Prop("y", a)>>) : n \in Scalars, a \in T}

\* the iteratees tried
Iteratees == {"identity", "times10", "replace", "replaceAndScale"}
Replacement == Arr(<<Num(99)>>)

Iteratee(f, value, keyPath, stack) ==
    CASE f = "identity" -> value
      [] f = "times10" ->
            IF value.kind = "num" THEN Num(value.val * 10) ELSE value
      [] f = "replace" ->
            IF value.kind = "arr" THEN Replacement ELSE value
      [] f = "replaceAndScale" ->
            IF IsCollection(value) THEN Replacement ELSE Num(value.val * 10)

MapDeepOptions ==
    [iteratee : Iteratees, postOrder : BOOLEAN,
     iterateCollections : BOOLEAN, iteratePrimitives : BOOLEAN]

\* the value whose children are traversed: `value` as reassigned by the
\* pre-order iteratee call
DescendOriginal(value, iterated) == value

Descend(value, iterated) == iterated

\* _.mapValues / _.map: same keys, mapped children
Rebuild(node, vals) ==
    [node EXCEPT !.val = [i \in 1..Len(@) |-> [key |-> @[i].key, val |-> vals[i]]]]

PushStackFlattened(stack, value) ==
    IF value.kind = "arr"
    THEN stack \o [i \in 1..Len(value.val) |-> value.val[i].val]
    ELSE Append(stack, value)

\* _.concat(stack, [value]): the value is wrapped, so an array is one entry
PushStack(stack, value) == Append(stack, value)

RECURSIVE MapDeepRec(_, _, _, _), MapChildren(_, _, _, _, _, _)

\* childrenIterator over the entries, left to right
MapChildren(entries, i, parent, keyPath, stack, c) ==
    IF i > Len(entries) THEN [vals |-> <<>>, log |-> <<>>]
    ELSE LET r == MapDeepRec(entries[i].val, Append(keyPath, entries[i].key),
                             PushStack(stack, parent), c)
             rest == MapChildren(entries, i + 1, parent, keyPath, stack, c)
         IN  [vals |-> <<r.value>> \o rest.vals, log |-> r.log \o rest.log]

\* _mapDeep(value, keyPath, stack); log: the iteratee calls made, in order
MapDeepRec(value, keyPath, stack, c) ==
    LET invokeIteratee == IF IsCollection(value) THEN c.iterateCollections
                          ELSE c.iteratePrimitives
        pre == invokeIteratee /\ ~c.postOrder
        v1 == IF pre THEN Iteratee(c.iteratee, value, keyPath, stack) ELSE value
        log1 == IF pre
                THEN <<[value |-> value, keyPath |-> keyPath, stack |-> stack,
                        ret |-> v1]>>
                ELSE <<>>
        d == Descend(value, v1)
        kids == IF IsCollection(d)
                THEN MapChildren(d.val, 1, d, keyPath, stack, c)
                ELSE [vals |-> <<>>, log |-> <<>>]
        v2 == IF IsCollection(d) THEN Rebuild(d, kids.vals) ELSE v1
        post == invokeIteratee /\ c.postOrder
        v3 == IF post THEN Iteratee(c.iteratee, v2, keyPath, stack) ELSE v2
        log3 == IF post
                THEN <<[value |-> v2, keyPath |-> keyPath, stack |-> stack,
                        ret |-> v3]>>
                ELSE <<>>
    IN  [value |-> v3, log |-> log1 \o kids.log \o log3]

\* mapDeep(value, iteratee, options)
MapDeep(value, c) == MapDeepRec(value, <<>>, <<>>, c)

MapDeepArgs(value, c) ==
    [value |-> value, options |-> c, called |-> FALSE,
     result |-> Num(0), log |-> <<>>]

MapDeepCall ==
    /\ ~md.called
    /\ LET r == MapDeep(md.value, md.options)
       IN  md' = [md EXCEPT !.called = TRUE, !.result = r.value, !.log = r.log]
    /\ UNCHANGED <<qvars, it, fm, ou>>

NoMapDeep ==
    MapDeepArgs(Num(0),
                [iteratee |-> "identity", postOrder |-> FALSE,
                 iterateCollections |-> TRUE, iteratePrimitives |-> TRUE])

\* ------------------------------------------ parseMarkdownWithFrontMatter
\* A text is a sequence of one-character strings.
Eol == <<"\n">>
CrLf == <<"\r", "\n">>
Dashes == <<"-", "-", "-">>
Pluses == <<"+", "+", "+">>

\* the three styles, in the order the parser tries them
FrontMatterTypes ==
    << [type |-> "yaml", startDelimiter |-> Dashes \o Eol, endDelimiter |-> Eol \o Dashes],
       [type |-> "toml", startDelimiter |-> Pluses \o Eol, endDelimiter |-> Eol \o Pluses],
       [type |-> "json", startDelimiter |-> <<"{">> \o Eol, endDelimiter |-> Eol \o <<"}">>] >>

\* what \s matches, among the characters of the texts
WhiteSpace == {" ", "\t", "\n", "\r"}

\* does p occur in s at the 0-based position i
OccursAt(s, p, i) ==
    /\ i + Len(p) <= Len(s)
    /\ \A k \in 1..Len(p) : s[i + k] = p[k]

\* String.prototype.startsWith
StartsWith(s, p) == OccursAt(s, p, 0)

\* String.prototype.indexOf: the first occurrence, 0-based, or -1
IndexOf(s, p) ==
    LET at == {i \in 0..Len(s) : OccursAt(s, p, i)}
    IN  IF at = {} THEN -1 ELSE CHOOSE i \in at : \A j \in at : i <= j

\* String.prototype.substring(start, end): both clamped, swapped when start > end
Substring(s, start, end) ==
    LET clamp(n) == IF n < 0 THEN 0 ELSE IF n > Len(s) THEN Len(s) ELSE n
        a == clamp(start)
        b == clamp(end)
        lo == IF a <= b THEN a ELSE b
        hi == IF a <= b THEN b ELSE a
    IN  SubSeq(s, lo + 1, hi)

RECURSIVE ReplaceAll(_, _, _)
ReplaceAll(s, p, r) ==
    LET i == IndexOf(s, p)
    IN  IF i = -1 THEN s
        ELSE SubSeq(s, 1, i) \o r \o ReplaceAll(SubSeq(s, i + Len(p) + 1, Len(s)), p, r)

NormaliseAll(s) == ReplaceAll(s, CrLf, Eol)

\* string.replace('\r\n', '\n'): a string pattern replaces the first occurrence only
Normalise(s) ==
    LET i == IndexOf(s, CrLf)
    IN  IF i = -1 THEN s
        ELSE SubSeq(s, 1, i) \o Eol \o SubSeq(s, i + Len(CrLf) + 1, Len(s))

\* lengths a match of ^\s*(\n|$) can have on s: k whitespace characters, then
\* a newline or the end of the string
MatchLengths(s) ==
    {IF k < Len(s) THEN k + 1 ELSE k :
        k \in {n \in 0..Len(s) :
                 /\ \A m \in 1..n : s[m] \in WhiteSpace
                 /\ (n < Len(s) => s[n + 1] = "\n")}}

MatchAfterEndDelimGreedy(s) ==
    LET ls == MatchLengths(s)
    IN  IF ls = {} THEN <<>>
        ELSE <<SubSeq(s, 1, CHOOSE l \in ls : \A m \in ls : m <= l)>>

\* afterEndDelim.match(/^\s*?(\n|$)/): the lazy star takes the fewest characters;
\* <<>> is null, <<m>> a match whose text (match[0]) is m
MatchAfterEndDelim(s) ==
    LET ls == MatchLengths(s)
    IN  IF ls = {} THEN <<>>
        ELSE <<SubSeq(s, 1, CHOOSE l \in ls : \A m \in ls : l <= m)>>

\* frontmatter: null, or the value fmType.parse makes of the data text
Null == [type |-> "null", data |-> <<>>]
Parse(fmType, data) == [type |-> fmType.type, data |-> data]

\* one pass of the _.forEach callback over a style
TryType(string, fmType, r) ==
    IF ~StartsWith(string, fmType.startDelimiter) THEN r
    ELSE LET index == IndexOf(string, fmType.endDelimiter)
         IN  IF index = -1 THEN r
             ELSE LET endDelimEndIndex == index + Len(fmType.endDelimiter)
                      afterEndDelim == Substring(string, endDelimEndIndex, Len(string))
                      afterEndDelimMatch == MatchAfterEndDelim(afterEndDelim)
                  IN  IF afterEndDelimMatch = <<>> THEN r
                      ELSE LET data == Substring(string, Len(fmType.startDelimiter), index)
                           IN  [frontmatter |-> Parse(fmType, data),
                                markdown |-> Substring(afterEndDelim,
                                                       Len(afterEndDelimMatch[1]),
                                                       Len(afterEndDelim))]

RECURSIVE TryTypes(_, _, _)
TryTypes(string, i, r) ==
    IF i > Len(FrontMatterTypes) THEN r
    ELSE TryTypes(string, i + 1, TryType(string, FrontMatterTypes[i], r))

ParseMarkdownWithFrontMatter(text) ==
    LET string == Normalise(text)
    IN  TryTypes(string, 1, [frontmatter |-> Null, markdown |-> string])

\* the texts parsed: an opening line, data, a closing delimiter and a tail
Title == <<"t", "i", "t", "l", "e", ":", " ", "H", "i">>
BodyText == <<"B", "o", "d", "y", " ", "t", "e", "x", "t">> \o Eol
ExampleDocument == Dashes \o Eol \o Title \o Eol \o Dashes \o Eol \o Eol \o BodyText
Openings == {<<>>, Dashes, Pluses, <<"{">>, <<"x">>}
OpeningEols == {Eol, CrLf}
Datas == {<<>>, <<"x">>, <<"x">> \o Eol \o Dashes \o <<"x">>, <<"x">> \o CrLf \o <<"y">>}
Closings == {<<>>, Dashes, Eol \o Dashes, Eol \o Pluses, Eol \o <<"}">>, CrLf \o Dashes}
TailPieces == {<<" ">>, Eol, CrLf, <<"x">>}

RECURSIVE Tails(_)
Tails(n) ==
    IF n = 0 THEN {<<>>}
    ELSE Tails(n - 1) \cup {p \o t : p \in TailPieces, t \in Tails(n - 1)}

Documents ==
    {ExampleDocument, <<>>}
        \cup {o \o e \o d \o c \o t :
                o \in Openings, e \in OpeningEols, d \in Datas, c \in Closings,
                t \in Tails(MaxTail)}

ParseArgs(text) ==
    [text |-> text, called |-> FALSE, frontmatter |-> Null, markdown |-> <<>>]

ParseCall ==
    /\ ~fm.called
    /\ LET r == ParseMarkdownWithFrontMatter(fm.text)
       IN  fm' = [fm EXCEPT !.called = TRUE, !.frontmatter = r.frontmatter,
                            !.markdown = r.markdown]
    /\ UNCHANGED <<qvars, it, md, ou>>

NoParse == ParseArgs(<<>>)

\* ------------------------------------------------- copy, copyIfNotSet, rename
\* Plain objects are Obj values as above; property names are single characters
\* and a property path is the text "a.b": names joined by dots.
Undef == [kind |-> "undef", val |-> 0]
Keys == {"a", "b"}
Leaves == {Num(1), Undef}

RECURSIVE ObjTrees(_)
ObjTrees(d) ==
    IF d = 0 THEN Leaves
    ELSE Leaves \cup {Obj(<<>>)}
            \cup {Obj(<<Prop("a", t)>>) : t \in ObjTrees(d - 1)}
            \cup {Obj(<<Prop("a", t), Prop("b", l)>>) : t \in ObjTrees(d - 1), l \in Leaves}

Objects(d) == {o \in ObjTrees(d) : o.kind = "obj"}

RECURSIVE KeySeqs(_)
KeySeqs(n) ==
    IF n = 1 THEN {<<k>> : k \in Keys}
    ELSE KeySeqs(n - 1) \cup {Append(ks, k) : ks \in KeySeqs(n - 1), k \in Keys}

RECURSIVE Join(_)
Join(keys) ==
    IF Len(keys) = 1 THEN <<keys[1]>> ELSE <<keys[1], ".">> \o Join(Tail(keys))

PathStrings == {Join(keys) : keys \in KeySeqs(MaxPath)}

\* _.toPath on a path text: the names between the dots
RECURSIVE ToPath(_)
ToPath(path) ==
    LET i == IndexOf(path, <<".">>)
    IN  IF i = -1 THEN <<path[1]>>
        ELSE <<path[1]>> \o ToPath(SubSeq(path, i + 2, Len(path)))

\* lodash isObject
IsObject(v) == v.kind = "obj"

\* hasOwnProperty.call(object, key)
HasOwn(object, key) ==
    IsObject(object) /\ \E i \in 1..Len(object.val) : object.val[i].key = Name(key)

\* object[key]
Member(object, key) ==
    IF HasOwn(object, key)
    THEN object.val[CHOOSE i \in 1..Len(object.val) : object.val[i].key = Name(key)].val
    ELSE Undef

\* _.has: every key on the path is an own property of the value before it
RECURSIVE HasPath(_, _)
HasPath(object, keys) ==
    /\ keys # <<>>
    /\ HasOwn(object, keys[1])
    /\ (Len(keys) = 1 \/ HasPath(Member(object, keys[1]), Tail(keys)))

Has(object, path) == HasPath(object, ToPath(path))

\* _.get (baseGet): walks while the value is not null or undefined
RECURSIVE GetPath(_, _)
GetPath(object, keys) ==
    IF keys = <<>> THEN object
    ELSE IF object.kind = "undef" THEN Undef
    ELSE GetPath(Member(object, keys[1]), Tail(keys))

\* assignValue(object, key, value)
AssignValue(object, key, value) ==
    IF HasOwn(object, key)
    THEN Obj([i \in 1..Len(object.val) |->
                 IF object.val[i].key = Name(key) THEN Prop(key, value) ELSE object.val[i]])
    ELSE Obj(Append(object.val, Prop(key, value)))

\* _.set (baseSet): a value on the way that is not an object is replaced by {}
RECURSIVE SetPath(_, _, _)
SetPath(object, keys, value) ==
    IF ~IsObject(object) THEN object
    ELSE IF Len(keys) = 1 THEN AssignValue(object, keys[1], value)
    ELSE LET objValue == Member(object, keys[1])
             nested == IF IsObject(objValue) THEN objValue ELSE Obj(<<>>)
         IN  AssignValue(object, keys[1], SetPath(nested, Tail(keys), value))

\* delete object[key]
Delete(object, key) ==
    IF ~HasOwn(object, key) THEN object
    ELSE LET keep == {i \in 1..Len(object.val) : object.val[i].key # Name(key)}
             nth(n) == CHOOSE i \in keep : Cardinality({j \in keep : j <= i}) = n
         IN  Obj([n \in 1..Cardinality(keep) |-> object.val[nth(n)]])

\* delete on the object found at keys, seen from the root
RECURSIVE DeleteAt(_, _, _)
DeleteAt(object, keys, key) ==
    IF keys = <<>> THEN Delete(object, key)
    ELSE IF ~HasOwn(object, keys[1]) THEN object
    ELSE AssignValue(object, keys[1], DeleteAt(Member(object, keys[1]), Tail(keys), key))

Initial(keys) == SubSeq(keys, 1, Len(keys) - 1)

Transforms == {"none", "double"}
Transform(transform, value) ==
    IF value.kind = "num" THEN Num(2 * value.val) ELSE value

\* copy(sourceObject, sourcePath, targetObject, targetPath, transform)
Copy(c) ==
    IF Has(c.object, c.path)
    THEN LET value == GetPath(c.object, ToPath(c.path))
         IN  [c EXCEPT !.target = SetPath(c.target, ToPath(c.targetPath),
                                          IF c.transform # "none"
                                          THEN Transform(c.transform, value) ELSE value),
                       !.transformCalls = IF c.transform # "none" THEN @ + 1 ELSE @]
    ELSE c

CopyIfNotSetAlways(c) == Copy(c)

\* copyIfNotSet(sourceObject, sourcePath, targetObject, targetPath, transform)
CopyIfNotSet(c) ==
    IF ~Has(c.target, c.targetPath) THEN Copy(c) ELSE c

RenameKeepsOld(c) ==
    IF Has(c.object, c.path)
    THEN [c EXCEPT !.object = SetPath(c.object, ToPath(c.targetPath),
                                      GetPath(c.object, ToPath(c.path)))]
    ELSE c

\* rename(object, oldPath, newPath); the object found at _.initial(oldPath)
\* after the set may be undefined, and then the delete throws
Rename(c) ==
    IF Has(c.object, c.path)
    THEN LET set == SetPath(c.object, ToPath(c.targetPath),
                            GetPath(c.object, ToPath(c.path)))
             oldPath == ToPath(c.path)
             parent == IF Len(oldPath) > 1 THEN GetPath(set, Initial(oldPath)) ELSE set
         IN  IF parent.kind = "undef"
             THEN [c EXCEPT !.object = set, !.threw = TRUE]
             ELSE [c EXCEPT !.object = DeleteAt(set, Initial(oldPath),
                                                oldPath[Len(oldPath)])]
    ELSE c

\* a call: the arguments as given (object0, target0) and the objects as they are
CallArgs(op, object, path, target, targetPath, transform) ==
    [op |-> op, object0 |-> object, object |-> object, path |-> path,
     target0 |-> target, target |-> target, targetPath |-> targetPath,
     transform |-> transform, calls |-> 0, transformCalls |-> 0, threw |-> FALSE,
     first |-> target]

Called(c) == [c EXCEPT !.calls = @ + 1, !.first = IF c.calls = 0 THEN c.target ELSE @]

RenameCall ==
    /\ ou.op = "rename" /\ ou.calls = 0
    /\ ou' = Called(Rename(ou))
    /\ UNCHANGED <<qvars, it, md, fm>>

CopyCall ==
    /\ ou.op = "copy" /\ ou.calls = 0
    /\ ou' = Called(Copy(ou))
    /\ UNCHANGED <<qvars, it, md, fm>>

CopyIfNotSetCall ==
    /\ ou.op = "copyIfNotSet" /\ ou.calls < 2
    /\ ou' = Called(CopyIfNotSet(ou))
    /\ UNCHANGED <<qvars, it, md, fm>>

NoCall == CallArgs("none", Obj(<<>>), <<"a">>, Obj(<<>>), <<"a">>, "none")

Init ==
    /\ \E l \in Limits, i \in Intervals : tq = Constructor(l, i)
    /\ now = 0
    /\ taskTagCounter = 0
    /\ job = [t \in Tags |-> "idle"]
    /\ outcome = [t \in Tags |-> NoPromise]
    /\ returned = [t \in Tags |-> "none"]
    /\ promise = [t \in Tags |-> NoPromise]
    /\ dropped = {}
    /\ survivors = {}
    /\ it = NoHelper
    /\ md = NoMapDeep
    /\ fm = NoParse
    /\ ou = NoCall

QueueIdle ==
    /\ tq = Constructor(0, 0)
    /\ now = 0
    /\ taskTagCounter = 0
    /\ job = [t \in Tags |-> "idle"]
    /\ outcome = [t \in Tags |-> NoPromise]
    /\ returned = [t \in Tags |-> "none"]
    /\ promise = [t \in Tags |-> NoPromise]
    /\ dropped = {}
    /\ survivors = {}

Next ==
    \/ AddTask
    \/ ClearQueue
    \/ TimerFires
    \/ \E t \in Tags : JobSettles(t)
    \/ \E t \in Tags : TaskDone(t)
    \/ Tick

Spec == Init /\ [][Next]_vars

\* the queue when clearQueue is never called, time passes, every armed timer
\* fires, every started job settles and every promise reaction runs
NextLive ==
    \/ AddTask
    \/ TimerFires
    \/ \E t \in Tags : JobSettles(t)
    \/ \E t \in Tags : TaskDone(t)
    \/ Tick
    \/ Wait

Fairness ==
    /\ WF_vars(Tick)
    /\ WF_vars(Wait)
    /\ WF_vars(TimerFires)
    /\ \A t \in Tags : WF_vars(JobSettles(t)) /\ WF_vars(TaskDone(t))

SpecLive == Init /\ [][NextLive]_vars /\ Fairness

\* one call of a promise helper, on any array
InitIter ==
    /\ QueueIdle
    /\ \E h \in Helpers, legacy \in BOOLEAN, array \in Arrays, init \in Results :
          /\ legacy => h = "forEachPromise"
          /\ (h # "reducePromise") => init = "undefined"
          /\ it = Helper(h, legacy, array, init)
    /\ md = NoMapDeep
    /\ fm = NoParse
    /\ ou = NoCall

NextIter ==
    \/ CallHelper
    \/ \E index \in 0..(MaxLen - 1) : CallbackSettles(index)

SpecIter == InitIter /\ [][NextIter]_vars

\* one call of mapDeep, on any value, iteratee and options
InitMapDeep ==
    /\ QueueIdle
    /\ it = NoHelper
    /\ \E value \in Trees(MaxDepth), c \in MapDeepOptions : md = MapDeepArgs(value, c)
    /\ fm = NoParse
    /\ ou = NoCall

NextMapDeep == MapDeepCall

SpecMapDeep == InitMapDeep /\ [][NextMapDeep]_vars

\* one call of parseMarkdownWithFrontMatter, on any text
InitFm ==
    /\ QueueIdle
    /\ it = NoHelper
    /\ md = NoMapDeep
    /\ \E text \in Documents : fm = ParseArgs(text)
    /\ ou = NoCall

NextFm == ParseCall

SpecFm == InitFm /\ [][NextFm]_vars

\* one call of rename or copy, or two of copyIfNotSet, on any objects and paths
InitObj ==
    /\ QueueIdle
    /\ it = NoHelper
    /\ md = NoMapDeep
    /\ fm = NoParse
    /\ \E object \in Objects(MaxNest), path \in PathStrings, targetPath \in PathStrings :
          \/ ou = CallArgs("rename", object, path, object, targetPath, "none")
          \/ \E op \in {"copy", "copyIfNotSet"}, target \in Objects(1),
                transform \in Transforms :
                ou = CallArgs(op, object, path, target, targetPath, transform)

NextObj ==
    \/ RenameCall
    \/ CopyCall
    \/ CopyIfNotSetCall

SpecObj == InitObj /\ [][NextObj]_vars

\* ------------------------------------------------------------- claims
Running == {t \in Tags : job[t] = "running"}
Both == tq.limit # 0 /\ tq.interval # 0
RunEntries == {i \in 1..Len(tq.log) : tq.log[i].op = "run"}
GateEntries(op) == {i \in 1..Len(tq.log) : tq.log[i].op = op}
SettledKinds == {"resolve", "reject"}

\* C1: with a limit N, the jobs started and not yet settled never number more
\* than N, and neither does the running count, under any interleaving of
\* addTask, settlements, timer firings and clearQueue.
C1_RunningWithinLimit ==
    tq.limit # 0 =>
        /\ Cardinality(Running) <= tq.limit
        /\ tq.runCount <= tq.limit
        /\ \A i \in RunEntries : tq.log[i].count < tq.limit

\* the timer callback made a start that filled the last slot, a task still queued
C1_Witness ==
    /\ Both
    /\ Cardinality(Running) = tq.limit
    /\ tq.limit > 1
    /\ tq.taskQueue # <<>>
    /\ tq.log # <<>>
    /\ tq.log[1].op = "run"

\* C2: tasks start in submission order (tags are handed out in submission
\* order, so the started tags grow strictly), in every configuration.
C2_FifoStartOrder ==
    \A i, j \in 1..Len(tq.runs) : i < j => tq.runs[i] < tq.runs[j]

\* three tasks started under both gates, one submitted between them discarded
C2_Witness ==
    /\ Len(tq.runs) >= 3
    /\ Both
    /\ \E t \in Tags : job[t] = "finished"
    /\ \E d \in dropped : tq.runs[1] < d /\ d < tq.runs[Len(tq.runs)]

\* C3: a task discarded by clearQueue is never started and its promise stays
\* pending; a task running at that moment keeps its own outcome: once its job
\* settles its promise holds exactly that outcome.
C3_ClearedNeverRun ==
    /\ \A t \in dropped :
          /\ t \notin Range(tq.runs)
          /\ t \notin Range(tq.taskQueue)
          /\ job[t] = "idle"
          /\ promise[t] = Pending
    /\ \A t \in survivors :
          \/ job[t] = "running" /\ promise[t] = Pending
          \/ /\ job[t] \in {"settled", "finished"}
             /\ promise[t] = outcome[t]
             /\ outcome[t] \in JobOutcomes(t)

\* limit 1, three jobs: the first was running at the clear and has settled,
\* the other two were discarded
C3_Witness ==
    /\ tq.limit = 1
    /\ dropped = {1, 2}
    /\ 0 \in survivors
    /\ promise[0].kind = "resolve"
    /\ job[0] = "finished"

\* C4: a task's promise settles with its own job's outcome, and a rejecting
\* job is handled like a resolving one: the completion handler is due either
\* way and the running count counts exactly the jobs not yet completed, so no
\* other task is blocked or changed.
C4_OwnOutcome ==
    /\ \A t \in Tags :
          /\ job[t] \in {"settled", "finished"} =>
                /\ promise[t] = outcome[t]
                /\ outcome[t] \in JobOutcomes(t)
          /\ job[t] = "settled" => returned[t] = "fulfilled"
          /\ job[t] \in {"idle", "running"} => promise[t] \in {NoPromise, Pending}
    /\ tq.runCount = Cardinality({t \in Tags : job[t] \in {"running", "settled"}})

\* under limit 1 a job rejected and the task behind it ran and resolved
C4_Witness ==
    /\ tq.limit = 1
    /\ \E t, u \in Tags :
          /\ t < u
          /\ job[t] = "finished"
          /\ promise[t].kind = "reject"
          /\ promise[u] = [kind |-> "resolve", value |-> u]

\* C5: with an interval I, every start but the first comes at least I after
\* the start before it.
C5_StartsSpaced ==
    tq.interval # 0 =>
        \A i \in RunEntries :
            tq.log[i].since = <<>> \/ tq.log[i].since[1] >= tq.interval

\* clearQueue discarded a queued task (cancelling its timer); a task submitted
\* afterwards was started by a new timer exactly one interval after the last start
C5_Witness ==
    /\ tq.interval # 0
    /\ tq.limit = 0
    /\ tq.log # <<>>
    /\ tq.log[1].op = "run"
    /\ tq.log[1].since = <<tq.interval>>
    /\ \E d \in dropped : d < tq.log[1].tag

\* C6 as claimed: with both gates, the interval gate comes first and the
\* concurrency check is the last thing before a start, also in the timer's
\* callback.
C6_IntervalGateFirst ==
    Both =>
        /\ \A i \in RunEntries : i > 1 /\ tq.log[i - 1].op = "limit"
        /\ \A i \in GateEntries("limit") : i > 1 /\ tq.log[i - 1].op = "interval"

\* C6 amended: with both gates, every attempt evaluates the concurrency gate
\* first and the interval gate only after it passed; the timer's callback
\* starts the task with no further check; and every start finds the running
\* count below the limit and the interval elapsed.
C6_LimitGateFirst ==
    Both =>
        /\ \A i \in GateEntries("limit") : i = 1 \/ tq.log[i - 1].op = "run"
        /\ \A i \in GateEntries("interval") : i > 1 /\ tq.log[i - 1].op = "limit"
        /\ \A i \in RunEntries :
              /\ i = 1 \/ tq.log[i - 1].op = "interval"
              /\ tq.log[i].count < tq.limit
              /\ tq.log[i].since = <<>> \/ tq.log[i].since[1] >= tq.interval

\* the timer's callback started a task, then the gates were tried for the next
C6_Witness ==
    /\ Both
    /\ Len(tq.log) = 3
    /\ tq.log[1].op = "run"
    /\ tq.log[2].op = "limit"
    /\ tq.log[3].op = "interval"
    /\ tq.timeout # <<>>

\* C7: a task is started at most once and never queued again: no tag is run
\* twice or queued twice, none is both queued and started, a queued task's job
\* has not been invoked, and a task has left the queue when its job is invoked.
C7_StartedOnce ==
    /\ \A i, j \in 1..Len(tq.runs) : i # j => tq.runs[i] # tq.runs[j]
    /\ \A i, j \in 1..Len(tq.taskQueue) : i # j => tq.taskQueue[i] # tq.taskQueue[j]
    /\ Range(tq.taskQueue) \cap Range(tq.runs) = {}
    /\ \A t \in Range(tq.taskQueue) : job[t] = "idle"
    /\ \A t \in Tags : job[t] # "idle" => t \in Range(tq.runs)
    /\ \A i \in RunEntries : ~tq.log[i].queued

C7_Witness ==
    /\ \E t \in Tags : job[t] = "finished" /\ promise[t].kind = "reject"
    /\ tq.taskQueue # <<>>
    /\ Len(tq.runs) >= 2

\* what the callbacks settled with
Rejections == {k \in 1..Len(it.outcomes) : it.outcomes[k].kind = "reject"}
Falses ==
    {k \in 1..Len(it.outcomes) :
        it.outcomes[k].kind = "resolve" /\ it.outcomes[k].value = "false"}
AllIndices == [k \in 1..Len(it.array) |-> k - 1]

\* C8: each helper invokes its callback with the indices 0, 1, 2, ... in
\* order, and only after the previous callback's promise settled: at most one
\* is in flight, and it is the one invoked last.
C8_OneAtATime ==
    /\ \A k \in 1..Len(it.calls) : it.calls[k] = k - 1
    /\ Cardinality(it.inFlight) <= 1
    /\ \A i \in it.inFlight : i = it.calls[Len(it.calls)]
    /\ Len(it.outcomes) + Cardinality(it.inFlight) = Len(it.calls)

C8_Witness ==
    /\ Len(it.calls) = MaxLen
    /\ it.inFlight = {MaxLen - 1}
    /\ it.helper = "reducePromise"

\* C9: when the callback for index k rejects, the helper's promise is rejected
\* with that error and the callback is invoked for no index above k.
C9_RejectStops ==
    \A k \in Rejections :
        /\ it.settled = [kind |-> "reject", value |-> it.outcomes[k].value]
        /\ \A c \in 1..Len(it.calls) : it.calls[c] <= it.outcomes[k].index
        /\ it.inFlight = {}

C9_Witness ==
    /\ Len(it.array) = MaxLen
    /\ it.helper = "mapPromise"
    /\ it.calls = <<0, 1>>
    /\ it.settled = [kind |-> "reject", value |-> "e2"]

\* C10 as claimed: when no callback rejects, forEachPromise resolves only
\* after one call for every index, whatever the callbacks resolved with.
C10_EveryElementVisited ==
    (it.helper = "forEachPromise" /\ it.settled.kind = "resolve") =>
        /\ it.calls = AllIndices
        /\ it.settled.value = "undefined"

\* C10 amended: forEachPromise resolves with no value; when no callback
\* rejected and none resolved with false it does so only after one call for
\* every index, in order; the version with the early exit resolves as soon as
\* a callback resolves with false, the later indices not called.
C10_VisitedUnlessFalse ==
    (it.helper = "forEachPromise" /\ it.settled.kind = "resolve") =>
        /\ it.settled.value = "undefined"
        /\ Rejections = {}
        /\ (it.legacy \/ Falses = {}) => it.calls = AllIndices
        /\ (~it.legacy /\ Falses # {}) =>
              /\ Falses = {Len(it.outcomes)}
              /\ it.calls = [k \in 1..Len(it.outcomes) |-> k - 1]
        /\ it.inFlight = {}

\* a full pass whose callbacks resolved with other falsy and truthy values
C10_Witness ==
    /\ it.helper = "forEachPromise"
    /\ ~it.legacy
    /\ it.settled.kind = "resolve"
    /\ Len(it.array) = MaxLen
    /\ it.calls = AllIndices
    /\ \E k \in 1..Len(it.outcomes) : it.outcomes[k].value = "undefined"

\* C11: when no callback rejects, mapPromise resolves to a sequence as long
\* as the input whose element at each index is what the callback for that
\* index resolved with; with callbacks resolving to their own element the
\* result equals the input.
C11_MapCollects ==
    it.helper = "mapPromise" =>
        /\ (it.called /\ it.inFlight = {} /\ Rejections = {}) =>
              it.settled.kind = "resolve"
        /\ it.settled.kind = "resolve" =>
              /\ Rejections = {}
              /\ Len(it.outcomes) = Len(it.array)
              /\ DOMAIN it.settled.value = 1..Len(it.array)
              /\ \A k \in 1..Len(it.array) :
                    /\ it.outcomes[k].index = k - 1
                    /\ it.settled.value[k] = it.outcomes[k].value
              /\ (\A k \in 1..Len(it.array) : it.outcomes[k].value = it.array[k])
                    => it.settled.value = it.array

\* the identity callback over a full-length array holding both elements
C11_Witness ==
    /\ it.helper = "mapPromise"
    /\ it.settled.kind = "resolve"
    /\ Len(it.array) = MaxLen
    /\ Range(it.array) = Elems
    /\ \A k \in 1..Len(it.array) : it.outcomes[k].value = it.array[k]
    /\ it.settled.value = it.array

\* C12: findPromise resolves with the element at the first index whose
\* callback result is truthy and calls no later index; with no truthy result
\* it resolves with undefined after one call per element.
TruthyResults ==
    {k \in 1..Len(it.outcomes) :
        it.outcomes[k].kind = "resolve" /\ it.outcomes[k].value \in Elems}

C12_FindFirstTruthy ==
    it.helper = "findPromise" =>
        /\ (it.called /\ it.inFlight = {} /\ Rejections = {}) =>
              it.settled.kind = "resolve"
        /\ it.settled.kind = "resolve" =>
              /\ it.inFlight = {}
              /\ it.calls = [k \in 1..Len(it.outcomes) |-> k - 1]
              /\ IF TruthyResults # {}
                 THEN /\ TruthyResults = {Len(it.outcomes)}
                      /\ it.settled.value = it.array[Len(it.outcomes)]
                 ELSE /\ it.settled.value = "undefined"
                      /\ Len(it.outcomes) = Len(it.array)
        /\ TruthyResults # {} => it.settled.kind = "resolve"

\* falsy results (false, then undefined) for the first two, a hit on the last
C12_Witness ==
    /\ it.helper = "findPromise"
    /\ Len(it.array) = MaxLen
    /\ it.array[1] # it.array[MaxLen]
    /\ Len(it.outcomes) = MaxLen
    /\ it.outcomes[1].value = "false"
    /\ TruthyResults = {MaxLen}
    /\ it.settled = [kind |-> "resolve", value |-> it.array[MaxLen]]

\* C13: on an empty array each helper resolves at once, with undefined, an
\* empty sequence, the initial value and undefined (not found), and the
\* callback is never invoked.
C13_EmptyInput ==
    (it.called /\ it.array = <<>>) =>
        /\ it.calls = <<>>
        /\ it.outcomes = <<>>
        /\ it.inFlight = {}
        /\ it.settled.kind = "resolve"
        /\ it.helper = "forEachPromise" => it.settled.value = "undefined"
        /\ it.helper = "mapPromise" => it.settled.value = <<>>
        /\ it.helper = "reducePromise" => it.settled.value = it.initialValue
        /\ it.helper = "findPromise" => it.settled.value = "undefined"

C13_Witness ==
    /\ it.called
    /\ it.array = <<>>
    /\ it.helper = "reducePromise"
    /\ it.settled = [kind |-> "resolve", value |-> "a"]

\* reading a value by key and by key path (as _.get does)
ChildKeys(node) ==
    IF IsCollection(node) THEN {node.val[i].key : i \in 1..Len(node.val)} ELSE {}
ChildAt(node, key) ==
    node.val[CHOOSE i \in 1..Len(node.val) : node.val[i].key = key].val
Front(p) == SubSeq(p, 1, Len(p) - 1)
Last(p) == p[Len(p)]

RECURSIVE Get(_, _)
Get(node, path) ==
    IF path = <<>> THEN node ELSE Get(ChildAt(node, Head(path)), Tail(path))

RECURSIVE Paths(_)
Paths(node) ==
    {<<>>} \cup UNION {{<<k>> \o p : p \in Paths(ChildAt(node, k))} : k \in ChildKeys(node)}

\* the nodes of a tree the options let the iteratee see
Eligible(tree) ==
    {p \in Paths(tree) :
        IF IsCollection(Get(tree, p)) THEN md.options.iterateCollections
        ELSE md.options.iteratePrimitives}
LogPaths == {md.log[i].keyPath : i \in 1..Len(md.log)}
CallsAt(p) == {i \in 1..Len(md.log) : md.log[i].keyPath = p}
ExampleTree == Obj(<<Prop("x", Num(1)), Prop("y", Arr(<<Num(2), Num(3)>>))>>)

\* C14: in pre-order the iteratee sees the children of what the parent's call
\* returned (the replacement), never those of the node it replaced; in
\* post-order it sees the original's children first, then the node with its
\* children mapped, and never the children of what it returns; an iteratee
\* that only changes scalars gives the same tree in both orders.
C14_ReplacementOrder ==
    md.called =>
        /\ ~md.options.postOrder =>
              /\ LogPaths = Eligible(md.result)
              /\ \A i \in 1..Len(md.log) :
                    LET e == md.log[i]
                    IN  e.keyPath # <<>> =>
                          /\ Last(e.keyPath) \in ChildKeys(Last(e.stack))
                          /\ e.value = ChildAt(Last(e.stack), Last(e.keyPath))
                          /\ \A j \in CallsAt(Front(e.keyPath)) :
                                j < i /\ Last(e.stack) = md.log[j].ret
        /\ md.options.postOrder =>
              /\ LogPaths = Eligible(md.value)
              /\ \A i \in 1..Len(md.log) :
                    LET e == md.log[i]
                        o == Get(md.value, e.keyPath)
                    IN  /\ e.value.kind = o.kind
                        /\ o.kind = "num" => e.value = o
                        /\ ChildKeys(e.value) = ChildKeys(o)
                        /\ \A k \in ChildKeys(o) :
                              \A j \in CallsAt(Append(e.keyPath, k)) :
                                  j < i /\ ChildAt(e.value, k) = md.log[j].ret
                        /\ e.keyPath = <<>> => (i = Len(md.log) /\ md.result = e.ret)
        /\ md.options.iteratee \in {"identity", "times10"} =>
              md.result = MapDeep(md.value,
                                  [md.options EXCEPT !.postOrder = ~@]).value

\* {x: 1, y: [2, 3]} with y's array replaced by [99], pre-order: 99 is visited
C14_Witness ==
    /\ md.called
    /\ md.value = ExampleTree
    /\ md.options = [iteratee |-> "replace", postOrder |-> FALSE,
                     iterateCollections |-> TRUE, iteratePrimitives |-> TRUE]
    /\ md.result = Obj(<<Prop("x", Num(1)), Prop("y", Replacement)>>)
    /\ \E i \in 1..Len(md.log) :
          /\ md.log[i].value = Num(99)
          /\ md.log[i].keyPath = <<Name("y"), Idx(0)>>
    /\ \A i \in 1..Len(md.log) : md.log[i].value \notin {Num(2), Num(3)}

\* ------------------------------------------------------------ C15, C16
\* fmType's closing delimiter sits at index, after a data region free of it, in
\* a text without "\r\n"; its line ends there, one empty line follows, then text
CloseLineThenEmptyLine(text, fmType, index) ==
    /\ StartsWith(text, fmType.startDelimiter)
    /\ IndexOf(text, CrLf) = -1
    /\ index = IndexOf(text, fmType.endDelimiter)
    /\ index >= Len(fmType.startDelimiter)
    /\ LET rest == SubSeq(text, index + Len(fmType.endDelimiter) + 1, Len(text))
       IN  /\ Len(rest) >= 3
           /\ rest[1] = "\n"
           /\ rest[2] = "\n"
           /\ rest[3] \notin WhiteSpace

BetweenDelimiters(text, fmType, index) ==
    [type |-> fmType.type, data |-> SubSeq(text, Len(fmType.startDelimiter) + 1, index)]

\* C15 as stated: the body starts at the body text, the empty line is not part
\* of it; the example yields markdown "Body text\n".
C15_BodyStartsAtText ==
    fm.called =>
        /\ \A n \in 1..Len(FrontMatterTypes), index \in 0..Len(fm.text) :
              LET fmType == FrontMatterTypes[n]
              IN  CloseLineThenEmptyLine(fm.text, fmType, index) =>
                    /\ fm.frontmatter = BetweenDelimiters(fm.text, fmType, index)
                    /\ fm.markdown =
                          SubSeq(fm.text, index + Len(fmType.endDelimiter) + 3, Len(fm.text))
        /\ fm.text = ExampleDocument =>
              /\ fm.frontmatter = [type |-> "yaml", data |-> Title]
              /\ fm.markdown = BodyText

\* C15, amended: for a document whose closing delimiter line is followed by one
\* empty line and then body text, the frontmatter is the value decoded from the
\* text between the delimiters and the markdown body is the newline of the empty
\* line followed by the body text (only the newline that ends the delimiter line
\* is dropped); the example yields markdown "\nBody text\n".
C15_BodyKeepsEmptyLine ==
    fm.called =>
        /\ \A n \in 1..Len(FrontMatterTypes), index \in 0..Len(fm.text) :
              LET fmType == FrontMatterTypes[n]
              IN  CloseLineThenEmptyLine(fm.text, fmType, index) =>
                    /\ fm.frontmatter = BetweenDelimiters(fm.text, fmType, index)
                    /\ fm.markdown =
                          SubSeq(fm.text, index + Len(fmType.endDelimiter) + 2, Len(fm.text))
        /\ fm.text = ExampleDocument =>
              /\ fm.frontmatter = [type |-> "yaml", data |-> Title]
              /\ fm.markdown = Eol \o BodyText

C15_Witness ==
    /\ fm.called
    /\ fm.text = ExampleDocument
    /\ CloseLineThenEmptyLine(fm.text, FrontMatterTypes[1], Len(Dashes \o Eol \o Title))
    /\ fm.frontmatter = [type |-> "yaml", data |-> Title]
    /\ fm.markdown = Eol \o BodyText

\* s begins with optional whitespace and then a newline or the end of the text
FollowedByLineEnd(s) ==
    \E k \in 0..Len(s) :
        /\ \A m \in 1..k : s[m] \in WhiteSpace
        /\ (k = Len(s) \/ s[k + 1] = "\n")

StyleAccepted(text, fmType) ==
    /\ StartsWith(text, fmType.startDelimiter)
    /\ IndexOf(text, fmType.endDelimiter) # -1
    /\ FollowedByLineEnd(SubSeq(text,
                                IndexOf(text, fmType.endDelimiter)
                                    + Len(fmType.endDelimiter) + 1,
                                Len(text)))

NoStyleAccepted(text) ==
    \A n \in 1..Len(FrontMatterTypes) : ~StyleAccepted(text, FrontMatterTypes[n])

CrLfAt(text) == {i \in 1..(Len(text) - 1) : text[i] = "\r" /\ text[i + 1] = "\n"}

\* text without the "\r" of its first "\r\n"
FirstCrLfReplaced(text) ==
    IF CrLfAt(text) = {} THEN text
    ELSE LET i == CHOOSE i \in CrLfAt(text) : \A j \in CrLfAt(text) : i <= j
         IN  [n \in 1..(Len(text) - 1) |-> IF n < i THEN text[n] ELSE text[n + 1]]

\* C16 as stated: when no style is accepted for the input text, frontmatter is
\* null and markdown is the input text character for character.
C16_RejectedVerbatim ==
    (fm.called /\ NoStyleAccepted(fm.text)) =>
        /\ fm.frontmatter = Null
        /\ fm.markdown = fm.text

\* C16, amended: when no style is accepted for the text with its first "\r\n"
\* replaced by "\n", frontmatter is null and markdown is that text: the input
\* except for its first "\r\n".
C16_RejectedNormalised ==
    (fm.called /\ NoStyleAccepted(FirstCrLfReplaced(fm.text))) =>
        /\ fm.frontmatter = Null
        /\ fm.markdown = FirstCrLfReplaced(fm.text)

C16_Witness ==
    /\ fm.called
    /\ StartsWith(fm.text, Dashes \o CrLf)
    /\ Cardinality(CrLfAt(fm.text)) = 2
    /\ IndexOf(FirstCrLfReplaced(fm.text), Eol \o Dashes) # -1
    /\ NoStyleAccepted(FirstCrLfReplaced(fm.text))
    /\ fm.frontmatter = Null
    /\ fm.markdown = FirstCrLfReplaced(fm.text)
    /\ fm.markdown # fm.text

\* ------------------------------------------------------------ C17 .. C19
IsPrefix(p, q) == Len(p) <= Len(q) /\ SubSeq(q, 1, Len(p)) = p

Renamed == ou.op = "rename" /\ ou.calls = 1 /\ ou.path # ou.targetPath

\* what C17 promises of a rename that has returned
RenameMoved ==
    IF Has(ou.object0, ou.path)
    THEN /\ ~ou.threw
         /\ Has(ou.object, ou.targetPath)
         /\ GetPath(ou.object, ToPath(ou.targetPath)) = GetPath(ou.object0, ToPath(ou.path))
         /\ ~Has(ou.object, ou.path)
    ELSE ou.object = ou.object0

\* C17 as stated: for any two different paths, a present oldPath is moved to
\* newPath and is no longer present; an absent oldPath leaves the object unchanged.
C17_RenameMoves == Renamed => RenameMoved

\* C17, amended: the same, for two paths neither of which is a prefix of the
\* other.
C17_RenameMovesApart ==
    (/\ Renamed
     /\ ~IsPrefix(ToPath(ou.path), ToPath(ou.targetPath))
     /\ ~IsPrefix(ToPath(ou.targetPath), ToPath(ou.path))) => RenameMoved

C17_Witness ==
    /\ Renamed
    /\ Len(ToPath(ou.path)) = 2
    /\ Len(ToPath(ou.targetPath)) = 2
    /\ ToPath(ou.path)[1] # ToPath(ou.targetPath)[1]
    /\ Has(ou.object0, ou.path)
    /\ GetPath(ou.object0, ToPath(ou.targetPath)).kind = "undef"
    /\ ~IsObject(Member(ou.object0, ToPath(ou.targetPath)[1]))
    /\ HasOwn(ou.object0, ToPath(ou.targetPath)[1])
    /\ GetPath(ou.object, ToPath(ou.targetPath)) = GetPath(ou.object0, ToPath(ou.path))
    /\ ~Has(ou.object, ou.path)

\* C18: applying copyIfNotSet twice leaves the target as one application left
\* it, and a target path that is already present leaves the target unchanged.
C18_CopyIfNotSetIdempotent ==
    ou.op = "copyIfNotSet" =>
        /\ ou.calls = 2 => ou.target = ou.first
        /\ (ou.calls >= 1 /\ Has(ou.target0, ou.targetPath)) =>
              (ou.target = ou.target0 /\ ou.transformCalls = 0)

C18_Witness ==
    /\ ou.op = "copyIfNotSet"
    /\ ou.calls = 2
    /\ ou.transform = "double"
    /\ ~Has(ou.target0, ou.targetPath)
    /\ Has(ou.object0, ou.path)
    /\ GetPath(ou.object0, ToPath(ou.path)).kind = "num"
    /\ ou.first # ou.target0
    /\ ou.target = ou.first
    /\ ou.transformCalls = 1

\* C19: copy does nothing when sourcePath resolves to undefined (missing, or
\* the stored value is undefined): target unchanged, transform not called;
\* otherwise the target path holds transform(value), or value without a transform.
C19_CopyUndefinedNoop ==
    (ou.op = "copy" /\ ou.calls = 1) =>
        LET value == GetPath(ou.object0, ToPath(ou.path))
        IN  IF value.kind = "undef"
            THEN ou.target = ou.target0 /\ ou.transformCalls = 0
            ELSE GetPath(ou.target, ToPath(ou.targetPath)) =
                    IF ou.transform # "none" THEN Transform(ou.transform, value) ELSE value

\* the part of C19 the code keeps: a missing sourcePath leaves the target
\* alone, any present one (a stored undefined too) is copied
C19_CopyWhenPresent ==
    (ou.op = "copy" /\ ou.calls = 1) =>
        LET value == GetPath(ou.object0, ToPath(ou.path))
        IN  IF ~Has(ou.object0, ou.path)
            THEN ou.target = ou.target0 /\ ou.transformCalls = 0
            ELSE /\ Has(ou.target, ou.targetPath)
                 /\ GetPath(ou.target, ToPath(ou.targetPath)) =
                       IF ou.transform # "none" THEN Transform(ou.transform, value) ELSE value

\* copy({a: undefined}, "a", {}, "b", transform) has run
C19_StoredUndefinedCopied ==
    /\ ou.op = "copy" /\ ou.calls = 1
    /\ ou.object0 = Obj(<<Prop("a", Undef)>>)
    /\ ou.path = <<"a">>
    /\ ou.target0 = Obj(<<>>)
    /\ ou.targetPath = <<"b">>
    /\ ou.transform = "double"
    /\ ou.target = Obj(<<Prop("b", Undef)>>)
    /\ ou.transformCalls = 1

\* ------------------------------------------------------------ C20
Settled(t) == promise[t].kind \in {"resolve", "reject"}

\* every task submitted so far has been started and its promise has settled
AllSettled == \A t \in Tags : promise[t] # NoPromise => (t \in Started(tq) /\ Settled(t))

\* C20: when clearQueue is never called, every started job settles and every
\* armed timer fires, every submitted task is eventually started and its
\* promise eventually settles, whatever the limit and the interval: from any
\* state with a pending promise a state is reached where every task submitted
\* by then (that one included) has been started and has settled.
C20_SubmittedEventuallySettles ==
    (\E t \in Tags : promise[t] = Pending) ~> AllSettled

\* with both gates on, three or more tasks have all been started and have
\* settled, the last of them by a timer due after the observed clock ticks
C20_Witness ==
    /\ tq.limit # 0 /\ tq.interval # 0
    /\ taskTagCounter >= 3
    /\ tq.taskQueue = <<>>
    /\ now > MaxTime
    /\ \A t \in 0..(taskTagCounter - 1) : t \in Started(tq) /\ Settled(t)

\* ------------------------------------------------------------ C21
LimitOnly == tq.limit # 0 /\ tq.interval = 0

\* the jobs started whose .then() handler has not run yet
Unfinished == {t \in Tags : job[t] \in {"running", "settled"}}

\* C21: with a limit N and no interval, after every step (addTask returned, a
\* settlement handler finished, clearQueue returned) a non-empty pending
\* sequence means exactly N jobs are running, and the handler of a settled job
\* starts the head of the pending sequence.
C21_WorkConserving ==
    [][/\ (LimitOnly' /\ tq'.taskQueue # <<>>) =>
              (tq'.runCount = tq'.limit /\ Cardinality(Unfinished') = tq'.limit)
       /\ \A t \in Tags :
              (/\ LimitOnly
               /\ job[t] = "settled"
               /\ job'[t] = "finished"
               /\ tq.taskQueue # <<>>) =>
                  /\ tq'.runs = Append(tq.runs, Head(tq.taskQueue))
                  /\ tq'.taskQueue = Tail(tq.taskQueue)
                  /\ job[Head(tq.taskQueue)] = "idle"
                  /\ job'[Head(tq.taskQueue)] = "running"]_vars

\* two jobs run, one more waits, and an earlier waiting task was started by
\* the handler of a settled job
C21_Witness ==
    /\ LimitOnly
    /\ tq.limit = 2
    /\ tq.taskQueue # <<>>
    /\ tq.runCount = 2
    /\ Len(tq.runs) >= 3
    /\ \E t \in Tags : job[t] = "finished"
    /\ tq.log # <<>> /\ tq.log[Len(tq.log)].op = "limit"
    /\ \E i \in 1..Len(tq.log) : tq.log[i].op = "run"

\* ------------------------------------------------------------ C22
\* the node _mapDeep was entered with at position i of e's key path: the root,
\* or the child of the container above it
Entered(e, i) ==
    IF i = 1 THEN md.value ELSE ChildAt(e.stack[i - 1], e.keyPath[i - 1])

\* C22: in every iteratee invocation keyPath is the sequence of keys from the
\* root to the node, stack is as long as keyPath and lists the enclosing
\* containers root-first; with an iteratee returning its argument the value
\* passed is get(originalValue, keyPath) and stack[i] is
\* get(originalValue, keyPath[0..i)); in pre-order a stack entry is the value
\* the ancestor's own iteratee call returned (the ancestor as entered when
\* the options give it no call), in post-order it is the original container.
C22_KeyPathAndStack ==
    md.called =>
        \A n \in 1..Len(md.log) :
            LET e == md.log[n]
            IN  /\ Len(e.stack) = Len(e.keyPath)
                /\ Cardinality(CallsAt(e.keyPath)) = 1
                /\ \A i \in 1..Len(e.keyPath) :
                      /\ IsCollection(e.stack[i])
                      /\ e.keyPath[i] \in ChildKeys(e.stack[i])
                      /\ ~md.options.postOrder =>
                            LET calls == CallsAt(SubSeq(e.keyPath, 1, i - 1))
                            IN  IF calls = {} THEN e.stack[i] = Entered(e, i)
                                ELSE \A j \in calls :
                                        /\ j < n
                                        /\ md.log[j].value = Entered(e, i)
                                        /\ md.log[j].stack = SubSeq(e.stack, 1, i - 1)
                                        /\ e.stack[i] = md.log[j].ret
                      /\ md.options.postOrder =>
                            /\ SubSeq(e.keyPath, 1, i) \in Paths(md.value)
                            /\ e.stack[i] = Get(md.value, SubSeq(e.keyPath, 1, i - 1))
                /\ ~md.options.postOrder => e.value = Entered(e, Len(e.keyPath) + 1)
                /\ md.options.iteratee = "identity" =>
                      /\ e.keyPath \in Paths(md.value)
                      /\ e.value = Get(md.value, e.keyPath)
                      /\ \A i \in 1..Len(e.stack) :
                            e.stack[i] = Get(md.value, SubSeq(e.keyPath, 1, i - 1))

\* pre-order over {x: 1, y: [2, 3]} with arrays replaced by [99]: the call on
\* 99 gets the key path y.0 and the stack (root, [99]), not (root, [2, 3])
C22_Witness ==
    /\ md.called
    /\ md.value = ExampleTree
    /\ md.options = [iteratee |-> "replace", postOrder |-> FALSE,
                     iterateCollections |-> TRUE, iteratePrimitives |-> TRUE]
    /\ \E n \in 1..Len(md.log) :
          /\ md.log[n].keyPath = <<Name("y"), Idx(0)>>
          /\ md.log[n].stack = <<ExampleTree, Replacement>>
          /\ md.log[n].value = Num(99)
          /\ md.log[n].stack[2] # Get(md.value, <<Name("y")>>)

\* ------------------------------------------------------------ C23
\* C23: in a queue with an interval, with or without a limit, after every step
\* (addTask, a settlement, a timer firing, clearQueue, a clock tick) a pending
\* timer means a non-empty pending sequence and no handler has run _runTask on
\* an empty queue; the step that starts a task while a timer is pending, the
\* timer firing, starts the head of the pending sequence.
C23_TimerFindsTask ==
    [][tq.interval # 0 =>
          /\ tq'.timeout # <<>> => tq'.taskQueue # <<>>
          /\ ~tq'.error
          /\ (tq.timeout # <<>> /\ tq'.runs # tq.runs) =>
                /\ now >= tq.timeout[1].at
                /\ tq.taskQueue # <<>>
                /\ tq'.runs = Append(tq.runs, Head(tq.taskQueue))
                /\ tq'.taskQueue = Tail(tq.taskQueue)]_vars

\* after a clearQueue, tasks were added again, a timer fired on one of them
\* and the next timer is pending with a task waiting for it
C23_Witness ==
    /\ tq.interval # 0
    /\ dropped # {}
    /\ tq.timeout # <<>>
    /\ tq.taskQueue # <<>>
    /\ tq.log # <<>> /\ tq.log[1].op = "run"
    /\ \A d \in dropped : tq.log[1].tag > d
    /\ ~tq.error

====
